---- MODULE Spec2Model ----
(***************************************************************************)
(* Model of the AI-Detective game client, src/frontend/app.js.             *)
(*                                                                         *)
(* The page is a single-threaded event loop.  An async handler runs        *)
(* synchronously up to its first await (the fetch), so a click is one      *)
(* atomic step that ends with a request in flight; the arrival of the      *)
(* response (or the rejection of the fetch) resumes the handler, which     *)
(* then runs to its end as a second atomic step.  Any number of requests   *)
(* may be in flight, and they may resolve in any order.                    *)
(*                                                                         *)
(* JavaScript values are tagged records, so that a value that may be       *)
(* undefined, null, a string or an object can be compared.                 *)
(***************************************************************************)
EXTENDS Integers, Sequences, FiniteSets, TLC

VARIABLES
    sessionId,          \* app.js:5
    gameState,          \* app.js:6
    aiSuggestDisabled,  \* aiSuggestBtn.disabled
    minimaxSuggestDisabled, \* minimaxSuggestBtn.disabled
    hidden,             \* the elements whose class list holds "hidden"
    statusText,         \* #totalCost, #actionsTaken, #possibleSolutions, #constraintsCount
    availableActions,   \* availableActionsDiv.innerHTML
    currentDomains,     \* currentDomainsDiv.innerHTML
    history,            \* investigationHistoryDiv's children, first child first
    aiSuggestion,       \* aiSuggestionDiv.innerHTML
    minimaxSuggestion,  \* minimaxSuggestionDiv.innerHTML
    cspSteps,           \* cspStepsDiv.innerHTML
    accuseForm,         \* the option values of the three accusation selects
    resultContent,      \* resultContent.innerHTML
    modalShown,         \* resultModal's class list holds "show"
    notices,            \* what the last step printed with console.log / console.error
    inflight,           \* the fetches that have not resolved yet
    nextId,             \* number of the next request issued
    last,               \* the step just taken: the click or the response processed
    stored,             \* history: the last successful start/action response processed
    evidenceLog,        \* history: the evidence processed and the resets of the list, in order
    startSucceeded      \* history: a successful /game/start response has been processed

vars == <<sessionId, gameState, aiSuggestDisabled, minimaxSuggestDisabled, hidden,
          statusText, availableActions, currentDomains, history, aiSuggestion,
          minimaxSuggestion, cspSteps, accuseForm, resultContent, modalShown,
          notices, inflight, nextId, last, stored, evidenceLog, startSucceeded>>

----------------------------------------------------------------------------
(* Bounds of the model. *)

\* Requests issued during one run of the page.
MaxRequests == 3
\* Longest value list of one category in the domain-rendering specification.
MaxVals == 2

----------------------------------------------------------------------------
(* JavaScript values. *)

Null == [tag |-> "null"]
Undefined == [tag |-> "undefined"]
Str(s) == [tag |-> "string", s |-> s]
Arr(items) == [tag |-> "array", items |-> items]

\* `${v}` in a template literal.
ToStr(v) == IF v.tag = "undefined" THEN "undefined"
            ELSE IF v.tag = "null" THEN "null"
            ELSE v.s

\* if (v): undefined and null are falsy, objects and arrays are truthy.
Truthy(v) == v.tag \notin {"undefined", "null"}

----------------------------------------------------------------------------
(* What the server may send.  The backend is not part of this repository:  *)
(* a payload is any JSON object with the fields the client reads, each of  *)
(* the top-level fields present or absent (absent reads as undefined).     *)

\* The session id is "user-session-" + Date.now(): fixed at page load.
SessionIds == {"user-session-1"}

DomFull == [tag |-> "object", entries |-> <<
    [category |-> "suspect", values |-> <<"Butler", "Chef", "Gardener">>],
    [category |-> "weapon", values |-> <<"Knife", "Poison", "Rope">>],
    [category |-> "location", values |-> <<"Kitchen", "Library", "Garden">>] >>]

DomSolved == [tag |-> "object", entries |-> <<
    [category |-> "suspect", values |-> <<"Chef">>],
    [category |-> "weapon", values |-> <<"Rope">>],
    [category |-> "location", values |-> <<"Library">>] >>]

gsFresh == [tag |-> "object", total_cost |-> 0, actions_taken |-> <<>>,
            possible_solutions |-> 27, constraints_count |-> 0,
            current_domains |-> DomFull]

gsSolved == [tag |-> "object", total_cost |-> 5, actions_taken |-> <<1, 2>>,
             possible_solutions |-> 1, constraints_count |-> 3,
             current_domains |-> DomSolved]

GameStates == {gsFresh, gsSolved}

ev1 == [tag |-> "object", action |-> "Check fingerprints", clue |-> "Not the Butler", cost |-> 2]
ev2 == [tag |-> "object", action |-> "Search kitchen", clue |-> "The rope is missing", cost |-> 3]
Evidence == {ev1, ev2}

act1 == [id |-> 1, action |-> "Check fingerprints", cost |-> 2]
ActionLists == {Arr(<<>>), Arr(<<act1>>)}

stepElim == [step |-> "Elimination", message |-> "Butler removed"]
stepConf == [step |-> "Confirmation", message |-> "Rope confirmed"]
stepInfo == [step |-> "Propagation", message |-> "Arc revised"]
CspResults == { [tag |-> "object", steps |-> Arr(<<>>)],
                [tag |-> "object", steps |-> Arr(<<stepElim, stepConf, stepInfo>>)] }

Messages == {Str("No active game")}

\* f_cost is a number; the model holds it in hundredths.  3.25 is a double
\* itself, the double nearest to 4.35 lies below 4.35.
sug1 == [tag |-> "object", action |-> "Search kitchen", explanation |-> "lowest f-cost"]
evalsA == Arr(<< [action |-> "Search kitchen", f_cost |-> 325],
                 [action |-> "Check fingerprints", f_cost |-> 435] >>)

q1 == [tag |-> "object", id |-> 1, question |-> "Where were you?"]
Questions == {q1}
evalsQ == Arr(<< [question |-> "Where were you?", expected_utility |-> 7],
                 [question |-> "Who had the key?", expected_utility |-> 4] >>)
gameTree == [tag |-> "object"]

res1 == [tag |-> "object", question |-> "Where were you?", response |-> "In the garden",
         response_type |-> "truth", utility_gained |-> 7, reveals_info |-> TRUE]
res2 == [tag |-> "object", question |-> "Who had the key?", response |-> "Nobody",
         response_type |-> "lie", utility_gained |-> 0, reveals_info |-> FALSE]
res3 == [tag |-> "object", question |-> "Who had the key?", response |-> "I forget",
         response_type |-> "uncertain", utility_gained |-> 1, reveals_info |-> FALSE]
AskResults == {res1, res2, res3}

sol1 == [tag |-> "object", suspect |-> "Chef", weapon |-> "Rope", location |-> "Library"]

\* A fetch that the network rejects.
Rejected == [kind |-> "reject"]
\* A payload with success false, with or without a message.
Failures == { [kind |-> "json", success |-> FALSE, message |-> m] :
              m \in Messages \cup {Undefined} }

StartResponses == {Rejected} \cup Failures \cup
    { [kind |-> "json", success |-> TRUE, game_state |-> g, available_actions |-> a,
       evidence |-> Undefined] :
      g \in GameStates \cup {Undefined}, a \in ActionLists }

ActionResponses == {Rejected} \cup Failures \cup
    { [kind |-> "json", success |-> TRUE, game_state |-> g, available_actions |-> a,
       evidence |-> e, csp_result |-> c] :
      g \in GameStates \cup {Undefined}, a \in {Undefined},
      e \in Evidence \cup {Undefined}, c \in CspResults \cup {Undefined} }

SuggestResponses == {Rejected} \cup Failures \cup
    { [kind |-> "json", success |-> TRUE, suggestion |-> s, all_evaluations |-> e] :
      s \in {sug1, Undefined}, e \in {evalsA, Undefined} }

MinimaxResponses == {Rejected} \cup Failures \cup
    { [kind |-> "json", success |-> TRUE, best_question |-> q, all_evaluations |-> e,
       game_tree |-> gameTree] :
      q \in Questions \cup {Undefined}, e \in {evalsQ, Undefined} }

AskResponses == {Rejected} \cup Failures \cup
    { [kind |-> "json", success |-> TRUE, result |-> r] : r \in AskResults \cup {Undefined} }

AccuseResponses == {Rejected} \cup Failures \cup
    { [kind |-> "json", success |-> TRUE, correct |-> c, solution |-> s] :
      c \in BOOLEAN, s \in {sol1, Undefined} }

----------------------------------------------------------------------------
(* The page as index.html delivers it.  index.html is not among the source *)
(* files; these follow the specification (section 4.1: a successful start  *)
(* enables the suggestion controls and populates the accusation form).     *)

InitialButtonsDisabled == TRUE
InitialHidden == {"gameStatus", "accusationPanel", "aiSuggestionPanel", "minimaxPanel",
                  "cspVisualization"}
InitialPlaceholder == [class |-> "empty-state", text |-> "initial"]
InitialSelectOptions == <<>>

----------------------------------------------------------------------------
(* Console output. *)

\* String.prototype.toUpperCase on the strings the client passes to it.
toUpperCase(str) ==
    CASE str = "success" -> "SUCCESS"
      [] str = "error" -> "ERROR"
      [] str = "info" -> "INFO"
      [] str = "truth" -> "TRUTH"
      [] str = "lie" -> "LIE"
      [] str = "uncertain" -> "UNCERTAIN"
      [] OTHER -> str

\* showNotification: console.log(`[${type.toUpperCase()}] ${message}`).  The
\* message is kept as the parts the caller's template is made of.
showNotification(message, type) ==
    [level |-> "log", type |-> toUpperCase(type), message |-> message]

\* console.error(label, error)
consoleError(label) == [level |-> "error", type |-> "", message |-> <<label>>]

SolvedNotice == showNotification(<<"You can now make your accusation!">>, "success")

----------------------------------------------------------------------------
(* Rendering functions. *)

\* showLoading(element): element.innerHTML = '<p class="empty-state">Loading...</p>'
showLoading == [class |-> "empty-state", text |-> "Loading..."]

\* The onclick="takeAction(id)" buttons of a rendering of the action list.
InvestigateButtons(rendered) ==
    IF rendered.class = "actions"
    THEN {rendered.items[i].onclick : i \in DOMAIN rendered.items}
    ELSE {}

displayAvailableActions(actions) ==
    IF Len(actions.items) = 0
    THEN [class |-> "empty-state", text |-> "No more actions available"]
    ELSE [class |-> "actions",
          items |-> [i \in DOMAIN actions.items |->
                       [title |-> actions.items[i].action,
                        cost |-> actions.items[i].cost,
                        onclick |-> actions.items[i].id]]]

\* str.charAt(0).toUpperCase() + str.slice(1), on the category names in use.
capitalizeFirst(str) ==
    CASE str = "suspect" -> "Suspect"
      [] str = "weapon" -> "Weapon"
      [] str = "location" -> "Location"
      [] OTHER -> str

\* A variant that marks every value of a non-empty list (length >= 1).
SpanSolvedNonEmpty(values) == Len(values) >= 1

\* The class of one value's span: "domain-value solved" or "domain-value ".
SpanSolved(values) == Len(values) = 1

\* One .domain-item per entry of the domains object, one span per value; the
\* "Mystery Solved!" banner when every category has exactly one value.
displayCurrentDomains(domains) ==
    [class |-> "domains",
     items |-> [i \in DOMAIN domains.entries |->
                  [header |-> capitalizeFirst(domains.entries[i].category),
                   spans |-> [j \in DOMAIN domains.entries[i].values |->
                                [val |-> domains.entries[i].values[j],
                                 solved |-> SpanSolved(domains.entries[i].values)]]]],
     banner |-> \A i \in DOMAIN domains.entries : Len(domains.entries[i].values) = 1]

HistoryItem(evidence) ==
    [class |-> "history-item", action |-> evidence.action, clue |-> evidence.clue,
     cost |-> evidence.cost]

\* A variant that appends the new item (appendChild).
addToHistoryAtEnd(evidence, h) ==
    LET cleared == IF \E i \in DOMAIN h : h[i].class = "empty-state" THEN <<>> ELSE h
    IN  cleared \o <<[class |-> "history-item", action |-> evidence.action,
                      clue |-> evidence.clue, cost |-> evidence.cost]>>

\* addToHistory: drop the empty-state placeholder if it is there, then insert
\* the new item before the first child.
addToHistory(evidence, h) ==
    LET cleared == IF \E i \in DOMAIN h : h[i].class = "empty-state" THEN <<>> ELSE h
    IN  <<HistoryItem(evidence)>> \o cleared

NoActionsYet == <<[class |-> "empty-state", text |-> "No actions taken yet"]>>

\* updateUI(data): the four regions it may write, as they are afterwards.
updateUI(data) ==
    [statusText |->
        IF Truthy(data.game_state)
        THEN [totalCost |-> data.game_state.total_cost,
              actionsTaken |-> Len(data.game_state.actions_taken),
              possibleSolutions |-> data.game_state.possible_solutions,
              constraintsCount |-> data.game_state.constraints_count]
        ELSE statusText,
     availableActions |->
        IF Truthy(data.available_actions)
        THEN displayAvailableActions(data.available_actions)
        ELSE availableActions,
     currentDomains |->
        IF Truthy(data.game_state) /\ Truthy(data.game_state.current_domains)
        THEN displayCurrentDomains(data.game_state.current_domains)
        ELSE currentDomains,
     history |->
        IF Truthy(data.evidence)
        THEN addToHistory(data.evidence, history)
        ELSE IF Truthy(data.game_state) /\ Len(data.game_state.actions_taken) = 0
             THEN NoActionsYet
             ELSE history]

\* Number.prototype.toFixed(1) of a number held in hundredths: the nearest tenth.
\* The number is a binary double: the one nearest to x/100.  toFixed rounds
\* the exact value of that double, and takes the larger of two tenths that
\* are equally near.  Only for x ending in 5 does the double's error decide.

\* The number of bits of the integer n.
RECURSIVE BitLength(_)
BitLength(n) == IF n = 0 THEN 0 ELSE 1 + BitLength(n \div 2)

\* Binary long division of r/100, r < 100: what is left of r when n more
\* significant bits have been produced.  Zero bits ahead of the first one bit
\* of the number are not significant.
RECURSIVE FractionLeft(_, _, _)
FractionLeft(r, n, started) ==
    IF n = 0 \/ r = 0 THEN r
    ELSE LET bit == 2 * r >= 100
             rest == IF bit THEN 2 * r - 100 ELSE 2 * r
         IN  FractionLeft(rest, IF started \/ bit THEN n - 1 ELSE n, started \/ bit)

\* The double nearest to x/100 is below x/100: the part cut off after the 53
\* bits of the significand is under half of the last bit.
DoubleBelow(x) ==
    LET left == FractionLeft(x % 100, 53 - BitLength(x \div 100), x \div 100 > 0)
    IN  left > 0 /\ 2 * left < 100

toFixed1(x) ==
    LET tenths == IF x % 10 > 5 \/ (x % 10 = 5 /\ ~DoubleBelow(x))
                  THEN x \div 10 + 1
                  ELSE x \div 10
    IN  [units |-> tenths \div 10, tenths |-> tenths % 10]

displayAISuggestion(suggestion, evaluations) ==
    [class |-> "ai-recommendation", action |-> suggestion.action,
     explanation |-> suggestion.explanation,
     evaluations |-> [i \in DOMAIN evaluations.items |->
                        [action |-> evaluations.items[i].action,
                         score |-> toFixed1(evaluations.items[i].f_cost)]]]

displayMinimaxSuggestion(bestQuestion, evaluations, tree) ==
    [class |-> "ai-recommendation", question |-> bestQuestion.question,
     evaluations |-> [i \in DOMAIN evaluations.items |->
                        [question |-> evaluations.items[i].question,
                         score |-> evaluations.items[i].expected_utility]],
     onclick |-> bestQuestion.id]

\* The onclick="askQuestion(id)" button of the minimax panel.
AskButtons(rendered) == IF rendered.class = "ai-recommendation" THEN {rendered.onclick} ELSE {}

\* The modal content askQuestion builds from data.result.
InterrogationResult(result) ==
    [class |-> "interrogation", question |-> result.question, response |-> result.response,
     color |-> IF result.response_type = "truth" THEN "#27ae60"
               ELSE IF result.response_type = "lie" THEN "#e74c3c" ELSE "#f39c12",
     type |-> toUpperCase(result.response_type),
     utility |-> result.utility_gained,
     reveals |-> IF result.reveals_info THEN "Yes" ELSE "No"]

\* The class name of one step and its text.
CspStep(step) ==
    [className |-> IF step.step = "Elimination" THEN "csp-step elimination"
                   ELSE IF step.step = "Confirmation" THEN "csp-step confirmation"
                   ELSE "csp-step",
     step |-> step.step, message |-> step.message]

\* updateCSPVisualization(steps) returns early on no steps.
CspSkipped(steps) == ~Truthy(steps) \/ Len(steps.items) = 0

\* populateAccusationForm: a placeholder with an empty value, then the names.
populateAccusationForm ==
    [suspect |-> <<"", "Butler", "Chef", "Gardener">>,
     weapon |-> <<"", "Knife", "Poison", "Rope">>,
     location |-> <<"", "Kitchen", "Library", "Garden">>]

\* The options the user picks among: the placeholder and the first name.
Picks == {1, 2}

\* The values a select can hold: those of its options, "" when it has none.
SelectValues(options) ==
    IF Len(options) = 0 THEN {""} ELSE {options[i] : i \in DOMAIN options \cap Picks}

\* showResult(correct, solution): the content it writes.  The Play Again
\* button reloads the page, which ends this run of the script.
CorrectVerdict(solution) ==
    [class |-> "result-success", suspect |-> solution.suspect, weapon |-> solution.weapon,
     location |-> solution.location, totalCost |-> gameState.total_cost,
     actions |-> Len(gameState.actions_taken)]
IncorrectVerdict == [class |-> "result-failure"]

\* showResult throws a TypeError when it reads a property of undefined or null:
\* solution.suspect, then gameState.total_cost, both on the correct branch only.
showResultThrows(correct, solution) ==
    correct /\ (~Truthy(solution) \/ ~Truthy(gameState))

----------------------------------------------------------------------------
(* Requests. *)

NoBody == [tag |-> "undefined"]
NoRequest == [id |-> 0, op |-> "none", body |-> NoBody]
NoResponse == [kind |-> "none"]

\* A variant that stamps each request with a fresh identifier.
FreshSessionBody == [session_id |-> "user-session-2"]

\* JSON.stringify({ session_id: sessionId }), for /game/start and /ai/suggest.
SessionBody == [session_id |-> sessionId]
\* The body of /game/action.
ActionBody(evidenceId) == [session_id |-> sessionId, evidence_id |-> evidenceId]
\* /ai/minimax is posted with headers only.
MinimaxBody == NoBody
\* The body of /interrogation/ask.
AskBody(questionId) == [question_id |-> questionId]
\* The body of /game/accuse.
AccuseBody(suspect, weapon, location) ==
    [session_id |-> sessionId,
     guess |-> [suspect |-> suspect, weapon |-> weapon, location |-> location]]

Succeeded(resp) == resp.kind = "json" /\ resp.success

(* History variables.  They record what has been processed and are read by *)
(* no action.                                                              *)

ResetMark == [tag |-> "reset"]

\* The successful /game/start or /game/action response just processed:
\* the request it answers and the game_state it carries.
Record(r, resp) ==
    IF Succeeded(resp) THEN [id |-> r.id, game_state |-> resp.game_state] ELSE stored

\* The response just processed answers a request issued before the request
\* whose response was stored last, and carries another game_state.
Overtaken(r, resp) ==
    Succeeded(resp) /\ r.id < stored.id /\ resp.game_state # stored.game_state

\* The evidence of a successful response, or a mark where the handler put
\* the "No actions taken yet" placeholder in place of the list.
Logged(r, resp) ==
    IF ~Succeeded(resp) THEN evidenceLog
    ELSE IF Truthy(resp.evidence)
         THEN Append(evidenceLog, [tag |-> "evidence", evidence |-> resp.evidence, id |-> r.id])
    ELSE IF Truthy(resp.game_state) /\ Len(resp.game_state.actions_taken) = 0
         THEN Append(evidenceLog, ResetMark)
         ELSE evidenceLog

----------------------------------------------------------------------------
(* The fetch and the resumption of a handler. *)

\* A request as it leaves: what it carries, and what the client held when the
\* user triggered it (before the handler did anything).
Request(op, body) ==
    [id |-> nextId, op |-> op, body |-> body,
     before |-> [gameState |-> gameState, availableActions |-> availableActions]]

\* fetch(...): the handler suspends with the request in flight.
Fetch(op, body) ==
    /\ nextId <= MaxRequests
    /\ inflight' = inflight \cup {Request(op, body)}
    /\ nextId' = nextId + 1
    /\ last' = [kind |-> "click", op |-> op, req |-> Request(op, body),
                resp |-> NoResponse, outcome |-> "sent", overtook |-> FALSE]

\* The handler of request r resumes with resp and runs to its end.
Resume(r, resp, outcome) ==
    /\ inflight' = inflight \ {r}
    /\ nextId' = nextId
    /\ last' = [kind |-> "response", op |-> r.op, req |-> r, resp |-> resp,
                outcome |-> outcome,
                overtook |-> r.op \in {"start", "action"} /\ Overtaken(r, resp)]

\* catch (error) { console.error(label, error); showNotification(text, "error"); }
Catch(label, text) == <<consoleError(label), showNotification(<<text>>, "error")>>

----------------------------------------------------------------------------
(* Init: the script's top level, lines 1-34. *)

Init ==
    /\ sessionId \in SessionIds
    /\ gameState = Null
    /\ aiSuggestDisabled = InitialButtonsDisabled
    /\ minimaxSuggestDisabled = InitialButtonsDisabled
    /\ hidden = InitialHidden
    /\ statusText = InitialPlaceholder
    /\ availableActions = InitialPlaceholder
    /\ currentDomains = InitialPlaceholder
    /\ history = <<InitialPlaceholder>>
    /\ aiSuggestion = InitialPlaceholder
    /\ minimaxSuggestion = InitialPlaceholder
    /\ cspSteps = <<>>
    /\ accuseForm = [suspect |-> InitialSelectOptions, weapon |-> InitialSelectOptions,
                     location |-> InitialSelectOptions]
    /\ resultContent = InitialPlaceholder
    /\ modalShown = FALSE
    /\ notices = <<>>
    /\ inflight = {}
    /\ nextId = 1
    /\ last = [kind |-> "init", op |-> "none", req |-> NoRequest, resp |-> NoResponse,
               outcome |-> "returned", overtook |-> FALSE]
    /\ stored = [id |-> 0, game_state |-> Null]
    /\ evidenceLog = <<>>
    /\ startSucceeded = FALSE

----------------------------------------------------------------------------
(* startNewGame, lines 37-64. *)

\* Up to the await: showLoading(availableActionsDiv), then the fetch.
ClickStartGame ==
    /\ Fetch("start", SessionBody)
    /\ availableActions' = showLoading
    /\ notices' = <<>>
    /\ UNCHANGED <<sessionId, gameState, aiSuggestDisabled, minimaxSuggestDisabled, hidden,
                   statusText, currentDomains, history, aiSuggestion, minimaxSuggestion,
                   cspSteps, accuseForm, resultContent, modalShown,
                   stored, evidenceLog, startSucceeded>>

\* A variant that keeps the old state when the payload carries none
\* (gameState = data.game_state || gameState).
StoreGameStateOrKeep(resp) ==
    IF Succeeded(resp) /\ Truthy(resp.game_state) THEN resp.game_state ELSE gameState

\* A variant whose failure path clears the state.
StoreGameStateOrClear(resp) ==
    IF Succeeded(resp) THEN resp.game_state
    ELSE IF resp.kind = "reject" THEN Null ELSE gameState

\* gameState when startNewGame or takeAction has handled resp.
StoreGameState(resp) == IF Succeeded(resp) THEN resp.game_state ELSE gameState

\* A variant that disables the button again when the start fails.
DisabledUnlessStarted(resp, disabled) == ~Succeeded(resp)

\* The disabled flag of a suggestion button when startNewGame has handled resp.
DisabledAfterStart(resp, disabled) == IF Succeeded(resp) THEN FALSE ELSE disabled

\* The accusation selects when startNewGame has handled resp.
FormAfterStart(resp) == IF Succeeded(resp) THEN populateAccusationForm ELSE accuseForm

\* From the await on.
RespondStart(r, resp) ==
    /\ r \in inflight /\ r.op = "start" /\ resp \in StartResponses
    /\ Resume(r, resp, IF resp.kind = "reject" THEN "caught" ELSE "returned")
    /\ gameState' = StoreGameState(resp)
    /\ aiSuggestDisabled' = DisabledAfterStart(resp, aiSuggestDisabled)
    /\ minimaxSuggestDisabled' = DisabledAfterStart(resp, minimaxSuggestDisabled)
    /\ accuseForm' = FormAfterStart(resp)
    /\ IF Succeeded(resp)
       THEN /\ statusText' = updateUI(resp).statusText
            /\ availableActions' = updateUI(resp).availableActions
            /\ currentDomains' = updateUI(resp).currentDomains
            /\ history' = updateUI(resp).history
            /\ hidden' = hidden \ {"gameStatus", "accusationPanel"}
            /\ notices' = <<showNotification(<<"Game started! Begin your investigation.">>,
                                             "success")>>
       ELSE /\ UNCHANGED <<statusText, availableActions, currentDomains, history, hidden>>
            /\ notices' = IF resp.kind = "reject"
                          THEN Catch("Error starting game:",
                                     "Failed to start game. Make sure the backend is running on port 5001.")
                          ELSE <<>>
    /\ stored' = Record(r, resp)
    /\ evidenceLog' = Logged(r, resp)
    /\ startSucceeded' = (startSucceeded \/ Succeeded(resp))
    /\ UNCHANGED <<sessionId, aiSuggestion, minimaxSuggestion, cspSteps, resultContent,
                   modalShown>>

----------------------------------------------------------------------------
(* takeAction, lines 66-96. *)

\* An Investigate button of the rendered action list is clicked.
ClickInvestigate(evidenceId) ==
    /\ evidenceId \in InvestigateButtons(availableActions)
    /\ Fetch("action", ActionBody(evidenceId))
    /\ notices' = <<>>
    /\ UNCHANGED <<sessionId, gameState, aiSuggestDisabled, minimaxSuggestDisabled, hidden,
                   statusText, availableActions, currentDomains, history, aiSuggestion,
                   minimaxSuggestion, cspSteps, accuseForm, resultContent, modalShown,
                   stored, evidenceLog, startSucceeded>>

\* Where the success branch of takeAction throws a TypeError, if it does:
\* data.csp_result.steps (line 81), data.evidence.action (line 83),
\* gameState.possible_solutions (line 88), in this order.
ThrowsAtCsp(resp) == ~Truthy(resp.csp_result)
ThrowsAtEvidence(resp) == ~ThrowsAtCsp(resp) /\ ~Truthy(resp.evidence)
ThrowsAtSolved(resp) ==
    ~ThrowsAtCsp(resp) /\ Truthy(resp.evidence) /\ ~Truthy(resp.game_state)
takeActionThrows(resp) ==
    ThrowsAtCsp(resp) \/ ThrowsAtEvidence(resp) \/ ThrowsAtSolved(resp)

\* if (gameState.possible_solutions === 1), line 88, on the state just stored.
IsSolved(state) == state.possible_solutions = 1

\* What the success branch prints, in order, up to where it throws.
takeActionNotices(resp) ==
    (IF ThrowsAtCsp(resp) \/ ThrowsAtEvidence(resp) THEN <<>>
     ELSE <<showNotification(<<"Evidence discovered: ", resp.evidence.action>>, "success")>>)
    \o (IF takeActionThrows(resp) THEN <<>>
        ELSE IF IsSolved(resp.game_state) THEN <<SolvedNotice>> ELSE <<>>)
    \o (IF takeActionThrows(resp) THEN Catch("Error taking action:", "Failed to take action.")
        ELSE <<>>)

RespondAction(r, resp) ==
    /\ r \in inflight /\ r.op = "action" /\ resp \in ActionResponses
    /\ Resume(r, resp,
              IF resp.kind = "reject" \/ (Succeeded(resp) /\ takeActionThrows(resp))
              THEN "caught" ELSE "returned")
    /\ gameState' = StoreGameState(resp)
    /\ IF Succeeded(resp)
       THEN /\ statusText' = updateUI(resp).statusText
            /\ availableActions' = updateUI(resp).availableActions
            /\ currentDomains' = updateUI(resp).currentDomains
            /\ history' = updateUI(resp).history
            /\ IF ThrowsAtCsp(resp) \/ CspSkipped(resp.csp_result.steps)
               THEN UNCHANGED <<hidden, cspSteps>>
               ELSE /\ hidden' = hidden \ {"cspVisualization"}
                    /\ cspSteps' = [i \in DOMAIN resp.csp_result.steps.items |->
                                      CspStep(resp.csp_result.steps.items[i])]
            /\ notices' = takeActionNotices(resp)
       ELSE /\ UNCHANGED <<statusText, availableActions, currentDomains, history, hidden,
                           cspSteps>>
            /\ notices' = IF resp.kind = "reject"
                          THEN Catch("Error taking action:", "Failed to take action.")
                          ELSE <<>>
    /\ stored' = Record(r, resp)
    /\ evidenceLog' = Logged(r, resp)
    /\ UNCHANGED <<sessionId, aiSuggestDisabled, minimaxSuggestDisabled, aiSuggestion,
                   minimaxSuggestion, accuseForm, resultContent, modalShown, startSucceeded>>

----------------------------------------------------------------------------
(* getAISuggestion, lines 98-118. *)

\* A disabled button fires no click event.
ClickAISuggest ==
    /\ ~aiSuggestDisabled
    /\ Fetch("suggest", SessionBody)
    /\ notices' = <<>>
    /\ UNCHANGED <<sessionId, gameState, aiSuggestDisabled, minimaxSuggestDisabled, hidden,
                   statusText, availableActions, currentDomains, history, aiSuggestion,
                   minimaxSuggestion, cspSteps, accuseForm, resultContent, modalShown,
                   stored, evidenceLog, startSucceeded>>

\* displayAISuggestion reads suggestion.action first, then evaluations.map;
\* the panel is assigned when the whole template has been evaluated.
suggestThrows(resp) == ~Truthy(resp.suggestion) \/ ~Truthy(resp.all_evaluations)

\* The message of the else branch: `${undefined}` prints as "undefined".
FailureNotice(resp) == showNotification(<<ToStr(resp.message)>>, "info")

RespondSuggest(r, resp) ==
    /\ r \in inflight /\ r.op = "suggest" /\ resp \in SuggestResponses
    /\ Resume(r, resp,
              IF resp.kind = "reject" \/ (Succeeded(resp) /\ suggestThrows(resp))
              THEN "caught" ELSE "returned")
    /\ IF Succeeded(resp) /\ ~suggestThrows(resp)
       THEN /\ aiSuggestion' = displayAISuggestion(resp.suggestion, resp.all_evaluations)
            /\ hidden' = hidden \ {"aiSuggestionPanel"}
            /\ notices' = <<showNotification(<<"AI suggestion generated using A* search!">>,
                                             "success")>>
       ELSE /\ UNCHANGED <<aiSuggestion, hidden>>
            /\ notices' = IF resp.kind = "json" /\ ~resp.success
                          THEN <<FailureNotice(resp)>>
                          ELSE Catch("Error getting AI suggestion:",
                                     "Failed to get AI suggestion.")
    /\ UNCHANGED <<sessionId, gameState, aiSuggestDisabled, minimaxSuggestDisabled,
                   statusText, availableActions, currentDomains, history,
                   minimaxSuggestion, cspSteps, accuseForm, resultContent, modalShown,
                   stored, evidenceLog, startSucceeded>>

----------------------------------------------------------------------------
(* getMinimaxSuggestion, lines 120-144. *)

ClickMinimax ==
    /\ ~minimaxSuggestDisabled
    /\ Fetch("minimax", MinimaxBody)
    /\ notices' = <<>>
    /\ UNCHANGED <<sessionId, gameState, aiSuggestDisabled, minimaxSuggestDisabled, hidden,
                   statusText, availableActions, currentDomains, history, aiSuggestion,
                   minimaxSuggestion, cspSteps, accuseForm, resultContent, modalShown,
                   stored, evidenceLog, startSucceeded>>

\* displayMinimaxSuggestion reads bestQuestion.question first, then
\* evaluations.map; the panel is assigned when the whole template has been
\* evaluated.
minimaxThrows(resp) == ~Truthy(resp.best_question) \/ ~Truthy(resp.all_evaluations)

RespondMinimax(r, resp) ==
    /\ r \in inflight /\ r.op = "minimax" /\ resp \in MinimaxResponses
    /\ Resume(r, resp,
              IF resp.kind = "reject" \/ (Succeeded(resp) /\ minimaxThrows(resp))
              THEN "caught" ELSE "returned")
    /\ IF Succeeded(resp) /\ ~minimaxThrows(resp)
       THEN /\ minimaxSuggestion' = displayMinimaxSuggestion(resp.best_question,
                                        resp.all_evaluations, resp.game_tree)
            /\ hidden' = hidden \ {"minimaxPanel"}
            /\ notices' = <<showNotification(
                              <<"Best interrogation question found using Minimax!">>,
                              "success")>>
       ELSE /\ UNCHANGED <<minimaxSuggestion, hidden>>
            /\ notices' = IF resp.kind = "json" /\ ~resp.success
                          THEN <<>>
                          ELSE Catch("Error getting Minimax suggestion:",
                                     "Failed to get Minimax suggestion.")
    /\ UNCHANGED <<sessionId, gameState, aiSuggestDisabled, minimaxSuggestDisabled,
                   statusText, availableActions, currentDomains, history,
                   aiSuggestion, cspSteps, accuseForm, resultContent, modalShown,
                   stored, evidenceLog, startSucceeded>>

----------------------------------------------------------------------------
(* askQuestion, lines 347-391. *)

\* The "Ask This Question" button of the rendered minimax suggestion is clicked.
ClickAskQuestion(questionId) ==
    /\ questionId \in AskButtons(minimaxSuggestion)
    /\ Fetch("ask", AskBody(questionId))
    /\ notices' = <<>>
    /\ UNCHANGED <<sessionId, gameState, aiSuggestDisabled, minimaxSuggestDisabled, hidden,
                   statusText, availableActions, currentDomains, history, aiSuggestion,
                   minimaxSuggestion, cspSteps, accuseForm, resultContent, modalShown,
                   stored, evidenceLog, startSucceeded>>

\* The template reads result.question first.
askThrows(resp) == ~Truthy(resp.result)

RespondAsk(r, resp) ==
    /\ r \in inflight /\ r.op = "ask" /\ resp \in AskResponses
    /\ Resume(r, resp,
              IF resp.kind = "reject" \/ (Succeeded(resp) /\ askThrows(resp))
              THEN "caught" ELSE "returned")
    /\ IF Succeeded(resp) /\ ~askThrows(resp)
       THEN /\ resultContent' = InterrogationResult(resp.result)
            /\ modalShown' = TRUE
            /\ notices' = <<>>
       ELSE /\ UNCHANGED <<resultContent, modalShown>>
            /\ notices' = IF resp.kind = "json" /\ ~resp.success
                          THEN <<>>
                          ELSE Catch("Error asking question:", "Failed to ask question.")
    /\ UNCHANGED <<sessionId, gameState, aiSuggestDisabled, minimaxSuggestDisabled, hidden,
                   statusText, availableActions, currentDomains, history, aiSuggestion,
                   minimaxSuggestion, cspSteps, accuseForm, stored, evidenceLog,
                   startSucceeded>>

----------------------------------------------------------------------------
(* makeAccusation, lines 146-174. *)

\* if (!suspect || !weapon || !location): the empty string is falsy.
Incomplete(suspect, weapon, location) == suspect = "" \/ weapon = "" \/ location = ""

\* The three selects hold what the user chose among their options.
ClickMakeAccusation(suspect, weapon, location) ==
    /\ suspect \in SelectValues(accuseForm.suspect)
    /\ weapon \in SelectValues(accuseForm.weapon)
    /\ location \in SelectValues(accuseForm.location)
    /\ IF Incomplete(suspect, weapon, location)
       THEN /\ notices' = <<showNotification(<<"Please select all three options!">>, "error")>>
            /\ last' = [kind |-> "click", op |-> "accuse", req |-> NoRequest,
                        resp |-> NoResponse, outcome |-> "returned",
                        overtook |-> FALSE]
            /\ UNCHANGED <<inflight, nextId>>
       ELSE /\ Fetch("accuse", AccuseBody(suspect, weapon, location))
            /\ notices' = <<>>
    /\ UNCHANGED <<sessionId, gameState, aiSuggestDisabled, minimaxSuggestDisabled, hidden,
                   statusText, availableActions, currentDomains, history, aiSuggestion,
                   minimaxSuggestion, cspSteps, accuseForm, resultContent, modalShown,
                   stored, evidenceLog, startSucceeded>>

RespondAccuse(r, resp) ==
    /\ r \in inflight /\ r.op = "accuse" /\ resp \in AccuseResponses
    /\ Resume(r, resp,
              IF resp.kind = "reject"
                 \/ (Succeeded(resp) /\ showResultThrows(resp.correct, resp.solution))
              THEN "caught" ELSE "returned")
    /\ IF Succeeded(resp) /\ ~showResultThrows(resp.correct, resp.solution)
       THEN /\ resultContent' = IF resp.correct THEN CorrectVerdict(resp.solution)
                                ELSE IncorrectVerdict
            /\ modalShown' = TRUE
            /\ notices' = <<>>
       ELSE /\ UNCHANGED <<resultContent, modalShown>>
            /\ notices' = IF resp.kind = "json" /\ ~resp.success
                          THEN <<>>
                          ELSE Catch("Error making accusation:", "Failed to make accusation.")
    /\ UNCHANGED <<sessionId, gameState, aiSuggestDisabled, minimaxSuggestDisabled, hidden,
                   statusText, availableActions, currentDomains, history, aiSuggestion,
                   minimaxSuggestion, cspSteps, accuseForm, stored, evidenceLog,
                   startSucceeded>>

----------------------------------------------------------------------------
(* The modal is closed: the close button (lines 32-34), a click outside    *)
(* (lines 479-483), or the Continue Investigation button (line 452).       *)

CloseModal ==
    /\ modalShown
    /\ modalShown' = FALSE
    /\ notices' = <<>>
    /\ last' = [kind |-> "close", op |-> "none", req |-> NoRequest, resp |-> NoResponse,
                outcome |-> "returned", overtook |-> FALSE]
    /\ UNCHANGED <<sessionId, gameState, aiSuggestDisabled, minimaxSuggestDisabled, hidden,
                   statusText, availableActions, currentDomains, history, aiSuggestion,
                   minimaxSuggestion, cspSteps, accuseForm, resultContent, inflight, nextId,
                   stored, evidenceLog, startSucceeded>>

----------------------------------------------------------------------------

Next ==
    \/ ClickStartGame
    \/ \E r \in inflight, resp \in StartResponses : RespondStart(r, resp)
    \/ \E id \in {act1.id} : ClickInvestigate(id)
    \/ \E r \in inflight, resp \in ActionResponses : RespondAction(r, resp)
    \/ ClickAISuggest
    \/ \E r \in inflight, resp \in SuggestResponses : RespondSuggest(r, resp)
    \/ ClickMinimax
    \/ \E r \in inflight, resp \in MinimaxResponses : RespondMinimax(r, resp)
    \/ \E id \in {q.id : q \in Questions} : ClickAskQuestion(id)
    \/ \E r \in inflight, resp \in AskResponses : RespondAsk(r, resp)
    \/ \E s \in SelectValues(accuseForm.suspect), w \in SelectValues(accuseForm.weapon),
          l \in SelectValues(accuseForm.location) : ClickMakeAccusation(s, w, l)
    \/ \E r \in inflight, resp \in AccuseResponses : RespondAccuse(r, resp)
    \/ CloseModal

Spec == Init /\ [][Next]_vars

----------------------------------------------------------------------------
(* displayCurrentDomains on its own: every domains object of three         *)
(* categories with up to MaxVals values each is rendered.                  *)

Vals == {"Butler", "Chef"}
ValueLists == UNION {[1..n -> Vals] : n \in 0..MaxVals}
AllDomains ==
    { [tag |-> "object", entries |-> <<
          [category |-> "suspect", values |-> s],
          [category |-> "weapon", values |-> w],
          [category |-> "location", values |-> l] >>] :
      s \in ValueLists, w \in ValueLists, l \in ValueLists }

RenderDomains(domains) ==
    /\ currentDomains' = displayCurrentDomains(domains)
    /\ last' = [kind |-> "render", op |-> "none", req |-> NoRequest,
                resp |-> [kind |-> "domains", domains |-> domains],
                outcome |-> "returned", overtook |-> FALSE]
    /\ UNCHANGED <<sessionId, gameState, aiSuggestDisabled, minimaxSuggestDisabled, hidden,
                   statusText, availableActions, history, aiSuggestion, minimaxSuggestion,
                   cspSteps, accuseForm, resultContent, modalShown, notices, inflight,
                   nextId, stored, evidenceLog, startSucceeded>>

NextDomains == \E domains \in AllDomains : RenderDomains(domains)

SpecDomains == Init /\ [][NextDomains]_vars

----------------------------------------------------------------------------
(* Helpers of the properties. *)

Range(seq) == {seq[i] : i \in DOMAIN seq}
Reverse(seq) == [i \in 1..Len(seq) |-> seq[Len(seq) + 1 - i]]
IsHistoryItem(child) == child.class = "history-item"
IsEvidenceEntry(entry) == entry.tag = "evidence"

\* The response of a request of operation op has just been processed.
Processed(op) == last.kind = "response" /\ last.op = op

----------------------------------------------------------------------------
(* C1 *)

\* C1: gameState is exactly the game_state field of the successful
\* /game/start or /game/action response processed last (null before the
\* first), whatever the order the requests were issued in; the value is
\* replaced whole, and no other handler writes it.
C1_LastResponseWins == gameState = stored.game_state

\* A response overtaken by that of a request issued later is processed: it
\* arrives last and its game_state, another one, is what gameState holds.
C1_Witness ==
    /\ last.kind = "response" /\ last.overtook
    /\ gameState = last.resp.game_state
    /\ Truthy(gameState)

----------------------------------------------------------------------------
(* C2 *)

\* The step resumes a handler whose fetch was rejected.
RejectionHandled == last'.kind = "response" /\ last'.resp.kind = "reject"

\* C2 as stated: when the handler of a rejected fetch has finished,
\* gameState is what it was before the operation was triggered.
C2_UnchangedSinceTrigger ==
    (last.kind = "response" /\ last.resp.kind = "reject")
        => gameState = last.req.before.gameState

\* C2, amended: for each of the six operations the handler of a rejected
\* fetch writes nothing to gameState (gameState is afterwards what it was
\* when the rejection arrived), the rejection is caught, and the catch block
\* logs it and prints one error notice.
C2_RejectionWritesNothing ==
    [][RejectionHandled =>
          /\ gameState' = gameState
          /\ last'.outcome = "caught"
          /\ Len(notices') = 2
          /\ notices'[1].level = "error"
          /\ notices'[2].level = "log" /\ notices'[2].type = "ERROR"]_vars

\* A rejection is handled while gameState holds a game state stored since the
\* request was issued: the handler leaves it, and it is not what the client
\* held at the trigger.
C2_Witness ==
    /\ last.kind = "response" /\ last.resp.kind = "reject"
    /\ last.outcome = "caught"
    /\ Truthy(gameState)
    /\ gameState # last.req.before.gameState

----------------------------------------------------------------------------
(* C3 *)

\* C3: a successful /game/action response whose game_state reports one
\* possible solution makes takeAction print the "solved" notice, and
\* takeAction prints it only for such a response.
C3_SolvedNotice ==
    Processed("action") =>
        /\ (Succeeded(last.resp) /\ Truthy(last.resp.game_state)
              /\ last.resp.game_state.possible_solutions = 1)
             => SolvedNotice \in Range(notices)
        /\ SolvedNotice \in Range(notices)
             => (Succeeded(last.resp) /\ Truthy(last.resp.game_state)
                   /\ last.resp.game_state.possible_solutions = 1)

----------------------------------------------------------------------------
(* C4 *)

\* The options of a select that name something: all but the placeholder.
Offered(options) == {options[i] : i \in {j \in DOMAIN options : options[j] # ""}}

\* C4: the two suggestion buttons are enabled exactly from the first
\* successful /game/start response on (never before, never disabled
\* again), and from then on the accusation form offers exactly three
\* suspects, three weapons and three locations.
C4_StartEnables ==
    /\ aiSuggestDisabled = ~startSucceeded
    /\ minimaxSuggestDisabled = ~startSucceeded
    /\ startSucceeded =>
          /\ Cardinality(Offered(accuseForm.suspect)) = 3
          /\ Cardinality(Offered(accuseForm.weapon)) = 3
          /\ Cardinality(Offered(accuseForm.location)) = 3
          /\ Len(accuseForm.suspect) = 4 /\ Len(accuseForm.weapon) = 4
          /\ Len(accuseForm.location) = 4

\* After a successful start, a later start fails: the buttons stay enabled
\* and the form stays populated.
C4_Witness ==
    /\ Processed("start") /\ ~Succeeded(last.resp)
    /\ startSucceeded
    /\ ~aiSuggestDisabled /\ ~minimaxSuggestDisabled
    /\ Cardinality(Offered(accuseForm.suspect)) = 3

----------------------------------------------------------------------------
(* C5 *)

HistoryItems == SelectSeq(history, IsHistoryItem)
EvidenceEntries == SelectSeq(evidenceLog, IsEvidenceEntry)

\* The log from its last reset mark on.
RECURSIVE SinceReset(_)
SinceReset(log) ==
    IF log = <<>> THEN <<>>
    ELSE IF log[Len(log)].tag = "reset" THEN <<>>
    ELSE Append(SinceReset(SubSeq(log, 1, Len(log) - 1)), log[Len(log)])

Rendered(entries) == [i \in DOMAIN entries |-> HistoryItem(entries[i].evidence)]

\* C5 as stated: the history list holds the evidence of all the successful
\* action responses processed, the one processed last first.
C5_AllEvidenceNewestFirst == HistoryItems = Reverse(Rendered(EvidenceEntries))

\* C5, amended: the history list holds the evidence of the successful
\* responses processed since the list was last reset, the one processed
\* last first, in the order the responses arrived.
C5_NewestFirstSinceReset == HistoryItems = Reverse(Rendered(SinceReset(evidenceLog)))

\* Two overlapping action requests were answered in the opposite order of
\* their issue, with different evidence: the list shows the later arrival
\* first.
C5_Witness ==
    /\ Len(HistoryItems) >= 2
    /\ Len(evidenceLog) >= 2
    /\ evidenceLog[Len(evidenceLog)].tag = "evidence"
    /\ evidenceLog[Len(evidenceLog) - 1].tag = "evidence"
    /\ evidenceLog[Len(evidenceLog)].id < evidenceLog[Len(evidenceLog) - 1].id
    /\ evidenceLog[Len(evidenceLog)].evidence # evidenceLog[Len(evidenceLog) - 1].evidence
    /\ HistoryItems[1] = HistoryItem(evidenceLog[Len(evidenceLog)].evidence)
    /\ HistoryItems[2] = HistoryItem(evidenceLog[Len(evidenceLog) - 1].evidence)

----------------------------------------------------------------------------
(* C6 *)

\* C6: displayCurrentDomains marks a category solved (its value's span has
\* the class "solved") if and only if the category's value list has exactly
\* one value; with no value or with several, no span of it is marked.
C6_SolvedIffSingleton ==
    last.kind = "render" =>
        \A i \in DOMAIN last.resp.domains.entries :
            LET values == last.resp.domains.entries[i].values
                spans == currentDomains.items[i].spans
            IN  /\ Len(spans) = Len(values)
                /\ (\E j \in DOMAIN spans : spans[j].solved) <=> (Len(values) = 1)
                /\ \A j \in DOMAIN spans : spans[j].solved <=> (Len(values) = 1)

\* A rendering with one category of no value, one of one value and one of two.
C6_Witness ==
    /\ last.kind = "render"
    /\ Len(last.resp.domains.entries[1].values) = 0
    /\ Len(last.resp.domains.entries[2].values) = 1
    /\ Len(last.resp.domains.entries[3].values) = 2
    /\ currentDomains.items[1].spans = <<>>
    /\ currentDomains.items[2].spans[1].solved
    /\ ~currentDomains.items[3].spans[1].solved /\ ~currentDomains.items[3].spans[2].solved

----------------------------------------------------------------------------
(* C7 *)

\* The step resumes a handler with a payload whose success is false.
FailureHandled == last'.kind = "response" /\ last'.resp.kind = "json" /\ ~last'.resp.success

\* C7: for every operation a payload with success false leaves gameState,
\* the buttons and the history as they are, and is shown as a notice that
\* carries the payload's message when there is one, and as no notice at all
\* when there is none.
C7_FailureSurfaced ==
    [][FailureHandled =>
          /\ UNCHANGED <<gameState, aiSuggestDisabled, minimaxSuggestDisabled, history>>
          /\ IF Truthy(last'.resp.message)
             THEN \E i \in DOMAIN notices' :
                     notices'[i].level = "log" /\ notices'[i].message = <<last'.resp.message.s>>
             ELSE notices' = <<>>]_vars

----------------------------------------------------------------------------
(* C8 *)

\* C8: a successful /game/accuse response shows the result modal with the
\* verdict: "correct" with the solution when correct is true, "incorrect"
\* otherwise; whatever gameState holds.  (A payload that says correct and
\* carries no solution is left aside.)
C8_VerdictShown ==
    (Processed("accuse") /\ Succeeded(last.resp)
       /\ (last.resp.correct => Truthy(last.resp.solution)))
    => /\ modalShown
       /\ IF last.resp.correct
          THEN /\ resultContent.class = "result-success"
               /\ resultContent.suspect = last.resp.solution.suspect
               /\ resultContent.weapon = last.resp.solution.weapon
               /\ resultContent.location = last.resp.solution.location
          ELSE resultContent.class = "result-failure"

----------------------------------------------------------------------------
(* C9 *)

CarriesSession(body) == "session_id" \in DOMAIN body

\* C9: sessionId keeps the value it got at page load, every request to
\* /game/start, /game/action, /ai/suggest and /game/accuse carries it as
\* session_id, and the requests to /ai/minimax and /interrogation/ask carry
\* no session_id.
C9_OneSession ==
    /\ sessionId \in SessionIds
    /\ \A r \in inflight :
          /\ r.op \in {"start", "action", "suggest", "accuse"}
                => CarriesSession(r.body) /\ r.body.session_id = sessionId
          /\ r.op \in {"minimax", "ask"} => ~CarriesSession(r.body)
    /\ \A r1, r2 \in inflight :
          (CarriesSession(r1.body) /\ CarriesSession(r2.body))
             => r1.body.session_id = r2.body.session_id

\* Requests to two endpoints are in flight at once, after an earlier one:
\* the /ai/suggest request carries the session id, the /ai/minimax request
\* carries none.
C9_Witness ==
    \E r1, r2 \in inflight :
        /\ r1.op = "suggest" /\ r2.op = "minimax"
        /\ r1.body.session_id = sessionId
        /\ ~CarriesSession(r2.body)

----------------------------------------------------------------------------
(* C10 *)

\* C10: a /game/start request that fails (rejected, or success false)
\* leaves the rendered list of available actions as it was before the
\* click, so a game in progress can still be continued with an Investigate
\* button.
C10_StartFailureKeepsActions ==
    (Processed("start") /\ ~Succeeded(last.resp)
       /\ InvestigateButtons(last.req.before.availableActions) # {})
    => /\ availableActions = last.req.before.availableActions
       /\ InvestigateButtons(availableActions) # {}

----------------------------------------------------------------------------
(* C11 *)

\* The step resumes takeAction with the answer to its fetch.
ActionHandled == last'.kind = "response" /\ last'.op = "action"

\* The notice of takeAction's catch block.
FailedToTakeAction == showNotification(<<"Failed to take action.">>, "error")

\* C11: one resumption of takeAction never both advances the state and
\* reports failure.  It prints "Failed to take action." only if it left
\* gameState and the history list as they were; and a payload with success
\* true that carries a game state and evidence, with or without csp_result,
\* has gameState overwritten with its game_state, its evidence put first in
\* the history list and the "Evidence discovered" notice printed, with no
\* error notice.
C11_AdvanceOrFail ==
    [][ActionHandled =>
          /\ (FailedToTakeAction \in Range(notices'))
                => UNCHANGED <<gameState, history>>
          /\ (Succeeded(last'.resp) /\ Truthy(last'.resp.game_state)
                /\ Truthy(last'.resp.evidence))
             => /\ gameState' = last'.resp.game_state
                /\ history' # <<>>
                /\ history'[1] = HistoryItem(last'.resp.evidence)
                /\ showNotification(<<"Evidence discovered: ", last'.resp.evidence.action>>,
                                    "success") \in Range(notices')
                /\ FailedToTakeAction \notin Range(notices')
                /\ \A i \in DOMAIN notices' : notices'[i].level # "error"]_vars

====
